---- MODULE Spec2Model ----
(***************************************************************************)
(* Model of the system-info MCP server (src/src/index.js).                 *)
(*                                                                         *)
(* One tool call is followed from the CallToolRequestSchema handler        *)
(* through the selected tool handler to the response.  The answers of the  *)
(* external collaborators (systeminformation, os, child_process.exec) are  *)
(* the inputs; they are drawn when the request arrives and kept in `host`. *)
(* Spec follows the requests; SpecLive adds the fairness of the awaited     *)
(* promises over few inputs; SpecShutdown adds the SIGINT listener;         *)
(* SpecTwo runs two invocations whose awaits interleave.                   *)
(*                                                                         *)
(* JavaScript values that may have more than one type in the same place    *)
(* are tagged: Num(n), Str(s), Undefined, JNull.  A falsy string field     *)
(* (absent or empty) is "", a falsy number field (absent or 0) is 0.       *)
(***************************************************************************)
EXTENDS Integers, Sequences, FiniteSets, TLC

VARIABLES
    pc,        \* position of the call: idle, dispatch, <handler steps>, respond, done
    request,   \* request.params: [name, arguments]
    host,      \* the answers of the operating system and of the providers
    monitors,  \* getMonitorInfo's local `monitors`
    outcome,   \* what the selected handler returned or raised
    response,  \* what the CallTool handler returned
    calls,     \* external calls issued by the current request, in order
    shutdown,  \* the SIGINT handlers and the exit of the process
    other      \* a second invocation, suspended at one of its awaits

vars == <<pc, request, host, monitors, outcome, response, calls, shutdown, other>>

-----------------------------------------------------------------------------
(* Bounds of the model *)

MaxDisplays == 2   \* displays reported by si.graphics()
MaxLines == 2      \* lines of xrandr output (before the final newline)
MaxItems == 2      \* elements of a JSON array in a platform command's output
MaxProcs == 3      \* processes reported by si.processes()
MaxLimit == 4      \* |limit| of get_running_processes
MaxSignals == 2    \* SIGINT signals delivered to the process

-----------------------------------------------------------------------------
(* JavaScript values *)

Num(n) == [num |-> n]
Str(s) == [str |-> s]
Undefined == [undef |-> TRUE]
JNull == [null |-> TRUE]
None == [none |-> TRUE]          \* "no value yet" of a model variable

IsUndefined(v) == DOMAIN v = {"undef"}
IsNull(v) == DOMAIN v = {"null"}

Min(a, b) == IF a <= b THEN a ELSE b
Max(a, b) == IF a >= b THEN a ELSE b

-----------------------------------------------------------------------------
(* Strings *)

Char(s, i) == SubSeq(s, i, i)

Digits == {"0", "1", "2", "3", "4", "5", "6", "7", "8", "9"}
IsDigit(c) == c \in Digits
\* the whitespace of /\s/ that can occur inside a line
IsSpace(c) == c \in {" ", "\t"}

\* String.prototype.includes
Includes(s, t) ==
    \E i \in 1..(Len(s) - Len(t) + 1) : SubSeq(s, i, i + Len(t) - 1) = t

\* String.prototype.indexOf, 1-based; 0 when absent
IndexOf(s, t) ==
    LET at == {i \in 1..(Len(s) - Len(t) + 1) : SubSeq(s, i, i + Len(t) - 1) = t}
    IN  IF at = {} THEN 0 ELSE CHOOSE i \in at : \A j \in at : i <= j

\* String.prototype.split with a non-empty string separator
RECURSIVE Split(_, _)
Split(s, sep) ==
    LET i == IndexOf(s, sep)
    IN  IF i = 0 THEN <<s>>
        ELSE <<SubSeq(s, 1, i - 1)>> \o Split(SubSeq(s, i + Len(sep), Len(s)), sep)

\* Array.prototype.join
RECURSIVE Join(_, _)
Join(parts, sep) ==
    IF Len(parts) = 0 THEN ""
    ELSE IF Len(parts) = 1 THEN parts[1]
    ELSE parts[1] \o sep \o Join(Tail(parts), sep)

\* String.prototype.trim
RECURSIVE Trim(_)
Trim(s) ==
    IF Len(s) = 0 THEN s
    ELSE IF IsSpace(Char(s, 1)) THEN Trim(SubSeq(s, 2, Len(s)))
    ELSE IF IsSpace(Char(s, Len(s))) THEN Trim(SubSeq(s, 1, Len(s) - 1))
    ELSE s

-----------------------------------------------------------------------------
(* The inputs: what the providers and the platform commands can answer *)

\* os.platform()
Platforms == {"win32", "darwin", "linux", "freebsd"}

\* elements of si.graphics().displays
DisplayPool ==
    { [model |-> "DELL U2720Q", vendor |-> "Dell", resolutionX |-> 3840,
       resolutionY |-> 2160, main |-> TRUE, builtin |-> FALSE],
      [model |-> "", vendor |-> "", resolutionX |-> 0,
       resolutionY |-> 0, main |-> FALSE, builtin |-> FALSE],
      [model |-> "Color LCD", vendor |-> "", resolutionX |-> 1440,
       resolutionY |-> 900, main |-> FALSE, builtin |-> TRUE] }

SeqsUpTo(S, n) == UNION {[1..k -> S] : k \in 0..n}

\* a rejected promise carries an Error with a message
Raise(m) == [kind |-> "raise", message |-> m]
Ok(v) == [kind |-> "ok", value |-> v]

\* si.graphics(): rejects, resolves to null, to an object without `displays`,
\* or to an object with a (possibly empty) displays array
GraphicsAnswers ==
    {Raise("graphics unavailable"), Ok(JNull), Ok([controllers |-> <<>>])}
    \cup {Ok([displays |-> ds]) : ds \in SeqsUpTo(DisplayPool, MaxDisplays)}

\* lines of `xrandr --query`
LinePool ==
    { "HDMI-1 connected primary 1920x1080+0+0",
      "HDMI-2 disconnected",
      "DP-1 connected (normal left)",
      "eDP-1 connected 1366x768+0+0",
      "   1920x1080     60.00*+",
      " VGA-1 connected 800x600+0+0",
      "DP-2 disconnected 640x480",
      "connected 1x2",
      "DP-3 connected 12x",
      "X11x2 connected 3x4",
      "DP-4 connected 5x4 disconnected" }

\* execAsync: rejects on a non-zero exit or a timeout, else resolves to {stdout}
ExecFail == Raise("Command failed")

\* the command that does not end by itself
ExecOverrun == [kind |-> "overrun"]

\* the rejection of execAsync after the timeout killed the command
ExecKilled == [kind |-> "raise", message |-> "Command failed", killed |-> TRUE]

\* stdout of xrandr: the lines, each ended by a newline
XrandrOutputs ==
    {[text |-> Join(ls \o <<"">>, "\n")] : ls \in SeqsUpTo(LinePool, MaxLines)}

\* stdout of the WMI query, as far as JSON.parse and trim() tell outputs apart:
\* blank, not JSON, one object, or an array whose elements are objects or null
WmiObjects ==
    { [InstanceName |-> "DISPLAY\\DEL1", MaxHorizontalImageSize |-> 60,
       MaxVerticalImageSize |-> 34],
      [InstanceName |-> "", MaxHorizontalImageSize |-> 0,
       MaxVerticalImageSize |-> 0] }

WmiOutputs ==
    {[blank |-> TRUE], [garbage |-> TRUE]}
    \cup {[json |-> [obj |-> o]] : o \in WmiObjects}
    \cup {[json |-> [arr |-> a]] : a \in SeqsUpTo(WmiObjects \cup {JNull}, MaxItems)}

\* stdout of system_profiler: blank, not JSON, a JSON object without
\* SPDisplaysDataType, or one whose SPDisplaysDataType lists display adapters
MacMonitor(n, r) == [_name |-> n, _spdisplays_resolution |-> r]

AdapterPool ==
    { JNull,
      [_name |-> "GPU0"],
      [_name |-> "GPU1", spdisplays_ndrvs |-> <<>>],
      [_name |-> "GPU2", spdisplays_ndrvs |->
          <<MacMonitor("Color LCD Retina", "2560 x 1600")>>],
      [_name |-> "GPU3", spdisplays_ndrvs |->
          <<MacMonitor("", "1920 x 1080 @ 60Hz"), MacMonitor("LG", "1920x1080")>>],
      [_name |-> "GPU4", spdisplays_ndrvs |->
          <<MacMonitor("", ""), JNull, MacMonitor("LG", "1280 x 720")>>] }

ProfilerOutputs ==
    {[blank |-> TRUE], [garbage |-> TRUE], [json |-> [other |-> TRUE]]}
    \cup {[json |-> [SPDisplaysDataType |-> as]] : as \in SeqsUpTo(AdapterPool, MaxItems)}

\* what the platform command of operating system p can answer
ExecAnswers(p) ==
    CASE p = "win32" -> {ExecFail, ExecOverrun} \cup {Ok(o) : o \in WmiOutputs}
      [] p = "darwin" -> {ExecFail, ExecOverrun} \cup {Ok(o) : o \in ProfilerOutputs}
      [] p = "linux" -> {ExecFail, ExecOverrun} \cup {Ok(o) : o \in XrandrOutputs}
      [] OTHER -> {None}

-----------------------------------------------------------------------------
(* getMonitorInfo: the cross-platform strategy *)

Unknown == Str("Unknown")

\* displays && displays.displays && displays.displays.length > 0
HasDisplays(g) ==
    /\ ~IsNull(g)
    /\ "displays" \in DOMAIN g
    /\ Len(g.displays) > 0

\* the callback of displays.displays.map
DisplayRecord(display, index) ==
    [ id |-> index + 1,
      name |-> IF display.model # "" THEN display.model
               ELSE "Display " \o ToString(index + 1),
      vendor |-> IF display.vendor # "" THEN display.vendor ELSE "Unknown",
      width |-> IF display.resolutionX # 0 THEN Num(display.resolutionX) ELSE Unknown,
      height |-> IF display.resolutionY # 0 THEN Num(display.resolutionY) ELSE Unknown,
      main |-> display.main,
      builtin |-> display.builtin,
      detection_method |-> "systeminformation" ]

MapDisplays(displays) ==
    [i \in 1..Len(displays) |-> DisplayRecord(displays[i], i - 1)]

\* monitors after the `if` that follows `await si.graphics()`
MonitorsFromGraphics(g) ==
    IF HasDisplays(g) THEN MapDisplays(g.displays) ELSE <<>>

-----------------------------------------------------------------------------
(* _getLinuxMonitors *)

\* mutant: the test is for `connected` alone
IsConnectedLineLoose(line) == Includes(line, "connected")

\* line.includes(' connected') && !line.includes('disconnected')
IsConnectedLine(line) ==
    Includes(line, " connected") /\ ~Includes(line, "disconnected")

\* line.split(/\s+/)[0]: the text before the first run of whitespace
RECURSIVE FirstPart(_)
FirstPart(line) ==
    IF Len(line) = 0 \/ IsSpace(Char(line, 1)) THEN ""
    ELSE Char(line, 1) \o FirstPart(SubSeq(line, 2, Len(line)))

\* last index of the run of digits that starts at i
RECURSIVE DigitRunEnd(_, _)
DigitRunEnd(s, i) ==
    IF i < Len(s) /\ IsDigit(Char(s, i + 1)) THEN DigitRunEnd(s, i + 1) ELSE i

\* line.match(/(\d+)x(\d+)/): the leftmost match, both groups greedy
NoMatch == [nomatch |-> TRUE]

ResolutionMatch(line) ==
    LET starts == {i \in 1..Len(line) :
                     /\ IsDigit(Char(line, i))
                     /\ LET e == DigitRunEnd(line, i)
                        IN  /\ e + 2 <= Len(line)
                            /\ Char(line, e + 1) = "x"
                            /\ IsDigit(Char(line, e + 2))}
    IN  IF starts = {} THEN NoMatch
        ELSE LET i == CHOOSE k \in starts : \A j \in starts : k <= j
                 e == DigitRunEnd(line, i)
             IN  [width |-> SubSeq(line, i, e),
                  height |-> SubSeq(line, e + 2, DigitRunEnd(line, e + 2))]

LinuxRecord(line, monitorId) ==
    LET m == ResolutionMatch(line)
    IN  [ id |-> monitorId,
          name |-> FirstPart(line),
          width |-> Str(m.width),
          height |-> Str(m.height),
          is_primary |-> Includes(line, "primary"),
          detection_method |-> "xrandr" ]

\* the body of `for (const line of lines)`
LineYieldsRecord(line) ==
    IsConnectedLine(line) /\ ResolutionMatch(line) # NoMatch

RECURSIVE LinuxScan(_, _)
LinuxScan(lines, monitorId) ==
    IF Len(lines) = 0 THEN <<>>
    ELSE IF LineYieldsRecord(Head(lines))
         THEN <<LinuxRecord(Head(lines), monitorId)>>
              \o LinuxScan(Tail(lines), monitorId + 1)
         ELSE LinuxScan(Tail(lines), monitorId)

GetLinuxMonitors(exec) ==
    IF exec.kind = "raise" THEN <<>>
    ELSE LinuxScan(Split(exec.value.text, "\n"), 1)

-----------------------------------------------------------------------------
(* _getWindowsMonitors *)

WindowsRecord(monitor, index) ==
    [ id |-> index + 1,
      name |-> "Monitor " \o ToString(index + 1),
      width |-> Unknown,
      height |-> Unknown,
      instance |-> IF monitor.InstanceName # "" THEN monitor.InstanceName
                   ELSE "Unknown",
      physical_width_cm |-> monitor.MaxHorizontalImageSize,
      physical_height_cm |-> monitor.MaxVerticalImageSize,
      detection_method |-> "wmi" ]

\* data.forEach(...): reading a property of a null element throws, which ends
\* the loop with the records pushed so far
RECURSIVE WindowsForEach(_, _)
WindowsForEach(data, index) ==
    IF index >= Len(data) \/ IsNull(data[index + 1]) THEN <<>>
    ELSE <<WindowsRecord(data[index + 1], index)>> \o WindowsForEach(data, index + 1)

GetWindowsMonitors(exec) ==
    IF exec.kind = "raise" THEN <<>>
    ELSE LET out == exec.value
         IN  IF "json" \notin DOMAIN out THEN <<>>   \* blank, or JSON.parse throws
             ELSE LET data == IF "arr" \in DOMAIN out.json THEN out.json.arr
                              ELSE <<out.json.obj>>
                  IN  WindowsForEach(data, 0)

-----------------------------------------------------------------------------
(* _getMacOSMonitors *)

\* width and height of a monitor's _spdisplays_resolution
\* mutant: the text after ` x ` is taken whole
MacResolutionWholeSide(resolution) ==
    IF Includes(resolution, " x ")
    THEN LET parts == Split(resolution, " x ")
         IN  [width |-> Trim(parts[1]), height |-> parts[2]]
    ELSE [width |-> "Unknown", height |-> "Unknown"]

MacResolution(resolution) ==
    IF Includes(resolution, " x ")
    THEN LET parts == Split(resolution, " x ")
         IN  [width |-> Trim(parts[1]), height |-> Split(parts[2], " ")[1]]
    ELSE [width |-> "Unknown", height |-> "Unknown"]

\* the object pushed for one monitor; `monitorId++` in `id` runs before the
\* template of `name` reads monitorId
MacRecord(monitor, monitorId) ==
    LET r == MacResolution(monitor._spdisplays_resolution)
    IN  [ id |-> monitorId,
          name |-> IF monitor._name # "" THEN monitor._name
                   ELSE "Monitor " \o ToString(monitorId + 1),
          width |-> Str(r.width),
          height |-> Str(r.height),
          retina |-> Includes(monitor._name, "Retina"),
          detection_method |-> "system_profiler" ]

\* the inner loop: [records pushed, whether the loop threw]
RECURSIVE MacMonitorLoop(_, _)
MacMonitorLoop(displayInfo, monitorId) ==
    IF Len(displayInfo) = 0 THEN [records |-> <<>>, threw |-> FALSE]
    ELSE IF IsNull(Head(displayInfo)) THEN [records |-> <<>>, threw |-> TRUE]
    ELSE LET rest == MacMonitorLoop(Tail(displayInfo), monitorId + 1)
         IN  [records |-> <<MacRecord(Head(displayInfo), monitorId)>> \o rest.records,
              threw |-> rest.threw]

\* mutant: the counter starts again at every display adapter
RECURSIVE MacAdapterLoopRestart(_, _)
MacAdapterLoopRestart(displays, monitorId) ==
    IF Len(displays) = 0 \/ IsNull(Head(displays)) THEN <<>>
    ELSE LET display == Head(displays)
             displayInfo == IF "spdisplays_ndrvs" \in DOMAIN display
                            THEN display.spdisplays_ndrvs ELSE <<>>
             inner == MacMonitorLoop(displayInfo, monitorId)
         IN  IF inner.threw THEN inner.records
             ELSE inner.records \o MacAdapterLoopRestart(Tail(displays), monitorId)

\* the outer loop over the display adapters
RECURSIVE MacAdapterLoop(_, _)
MacAdapterLoop(displays, monitorId) ==
    IF Len(displays) = 0 \/ IsNull(Head(displays)) THEN <<>>
    ELSE LET display == Head(displays)
             displayInfo == IF "spdisplays_ndrvs" \in DOMAIN display
                            THEN display.spdisplays_ndrvs ELSE <<>>
             inner == MacMonitorLoop(displayInfo, monitorId)
         IN  IF inner.threw THEN inner.records
             ELSE inner.records
                  \o MacAdapterLoop(Tail(displays), monitorId + Len(inner.records))

GetMacOSMonitors(exec) ==
    IF exec.kind = "raise" THEN <<>>
    ELSE LET out == exec.value
         IN  IF "json" \notin DOMAIN out THEN <<>>   \* JSON.parse throws
             ELSE IF "SPDisplaysDataType" \notin DOMAIN out.json THEN <<>>
             ELSE MacAdapterLoop(out.json.SPDisplaysDataType, 1)

-----------------------------------------------------------------------------
(* getMonitorInfo: the chain *)

\* the platform strategy of operating system systemName, if it has one
HasPlatformStrategy(systemName) == systemName \in {"win32", "darwin", "linux"}

\* mutant: the platform strategy runs whatever the graphics query found
NeedsPlatformAlways(ms) == TRUE

\* `if (monitors.length === 0)` before the platform-specific strategies
NeedsPlatform(ms) == Len(ms) = 0

\* mutant: macOS is tested under a name os.platform() never returns
PlatformMonitorsNoMac(systemName, exec) ==
    CASE systemName = "win32" -> GetWindowsMonitors(exec)
      [] systemName = "linux" -> GetLinuxMonitors(exec)
      [] OTHER -> <<>>

PlatformMonitors(systemName, exec) ==
    CASE systemName = "win32" -> GetWindowsMonitors(exec)
      [] systemName = "darwin" -> GetMacOSMonitors(exec)
      [] systemName = "linux" -> GetLinuxMonitors(exec)

\* the `timeout` option of the strategy's execAsync call, in milliseconds
Timeout(systemName) ==
    CASE systemName = "win32" -> 10000
      [] systemName = "darwin" -> 15000
      [] systemName = "linux" -> 10000

\* mutant: execAsync is called without a timeout
SettlesByItself(exec, timeout) == exec.kind # "overrun"

\* whether the promise of execAsync(cmd, {timeout}) settles: when the command
\* ends, or when the timeout kills it
Settles(exec, timeout) == exec.kind # "overrun" \/ timeout > 0

\* what the promise settles to
ExecSettled(exec, timeout) ==
    IF exec.kind = "overrun" THEN ExecKilled ELSE exec

\* mutant: the command of the Linux strategy is run on every platform
PlatformCommandXrandr(systemName) == "xrandr --query"

PlatformCommand(systemName) ==
    CASE systemName = "win32" -> "powershell Get-CimInstance WmiMonitorBasicDisplayParams"
      [] systemName = "darwin" -> "system_profiler SPDisplaysDataType -json"
      [] systemName = "linux" -> "xrandr --query"

FallbackRecord ==
    [ id |-> 1,
      name |-> "Unknown Monitor",
      width |-> Unknown,
      height |-> Unknown,
      detection_method |-> "fallback",
      note |-> "Unable to detect monitor details" ]

\* mutant: the fallback record is never substituted
FinalFallbackNever(ms) == ms

\* mutant: the fallback record is pushed whatever was found
FinalFallbackAlways(ms) == ms \o <<FallbackRecord>>

\* the final fallback: `if (monitors.length === 0) monitors = [ {...} ]`
FinalFallback(ms) == IF Len(ms) = 0 THEN <<FallbackRecord>> ELSE ms

\* mutant: the count leaves one record out
MonitorResultOneLess(ms, systemName) ==
    [total_monitors |-> Len(ms) - 1, monitors |-> ms, system |-> systemName]

\* the object returned by the try block
MonitorResult(ms, systemName) ==
    [total_monitors |-> Len(ms), monitors |-> ms, system |-> systemName]

\* mutant: the message of the exception is returned as it is
MonitorErrorBare(message, systemName) ==
    [error |-> message, system |-> systemName]

\* the object returned by the catch block
MonitorError(message, systemName) ==
    [error |-> "Failed to get monitor info: " \o message, system |-> systemName]

-----------------------------------------------------------------------------
(* getRunningProcesses *)

DefaultLimit == 20

Proc(pid, name, cpu, memRss, memVss, state, user) ==
    [pid |-> pid, name |-> name, cpu |-> cpu, memRss |-> memRss, memVss |-> memVss,
     state |-> state, started |-> "2024-01-01 00:00:00", user |-> user]

\* elements of si.processes().list; cpu is in tenths of a percent, memRss in
\* bytes, memVss in the unit of os.totalmem()
ProcPool ==
    { Proc(1, "bash", 25, 5242880, 2000, "sleeping", "root"),
      Proc(2, "Xorg", 120, 1572864, 80000, "running", "root"),
      Proc(3, "cron", 25, 5242880, 0, "sleeping", ""),
      Proc(4, "Code", 0, 0, 0, "blocked", "me"),
      Proc(5, "code", 7, 1048576, 4000, "running", "me") }

\* process lists: no pid occurs twice
ProcLists ==
    {l \in SeqsUpTo(ProcPool, MaxProcs) :
        \A i, j \in 1..Len(l) : i # j => l[i].pid # l[j].pid}

CountState(l, st) == Cardinality({i \in 1..Len(l) : l[i].state = st})

\* si.processes(): rejects, or resolves to the totals and the list
ProcessAnswers ==
    {Raise("processes unavailable")}
    \cup {Ok([all |-> Len(l), running |-> CountState(l, "running"),
              sleeping |-> CountState(l, "sleeping"),
              blocked |-> CountState(l, "blocked"), list |-> l]) : l \in ProcLists}

LowerLetters == "abcdefghijklmnopqrstuvwxyz"
UpperLetters == "ABCDEFGHIJKLMNOPQRSTUVWXYZ"

IsUpper(c) == IndexOf(UpperLetters, c) > 0
\* position of a letter in the alphabet, whatever its case
LetterRank(c) == IF IsUpper(c) THEN IndexOf(UpperLetters, c) ELSE IndexOf(LowerLetters, c)
\* UTF-16 code unit of a letter
CodeUnit(c) == IF IsUpper(c) THEN 64 + IndexOf(UpperLetters, c)
               ELSE 96 + IndexOf(LowerLetters, c)

Sign(n) == IF n < 0 THEN -1 ELSE IF n > 0 THEN 1 ELSE 0

\* lexicographic comparison of two strings of letters by key K
RECURSIVE CompareBy(_, _, _)
CompareBy(a, b, key) ==
    IF Len(a) = 0 \/ Len(b) = 0 THEN Sign(Len(a) - Len(b))
    ELSE LET ka == IF key = "rank" THEN LetterRank(Char(a, 1))
                   ELSE IF key = "case" THEN (IF IsUpper(Char(a, 1)) THEN 1 ELSE 0)
                   ELSE CodeUnit(Char(a, 1))
             kb == IF key = "rank" THEN LetterRank(Char(b, 1))
                   ELSE IF key = "case" THEN (IF IsUpper(Char(b, 1)) THEN 1 ELSE 0)
                   ELSE CodeUnit(Char(b, 1))
         IN  IF ka # kb THEN Sign(ka - kb)
             ELSE CompareBy(SubSeq(a, 2, Len(a)), SubSeq(b, 2, Len(b)), key)

\* String.prototype.localeCompare on names made of letters.  With ICU (the
\* usual build) the letters are compared without their case first, and only
\* between names equal that way does the case decide, lower case first;
\* without Intl support the code units are compared.
LocaleCompare(a, b, collation) ==
    IF collation = "icu"
    THEN IF CompareBy(a, b, "rank") # 0 THEN CompareBy(a, b, "rank")
         ELSE CompareBy(a, b, "case")
    ELSE CompareBy(a, b, "unit")

\* mutant: memory is compared the other way round
CompareMemoryAscending(a, b, sortBy, collation) ==
    IF sortBy = Str("memory") THEN a.memRss - b.memRss
    ELSE IF sortBy = Str("name") THEN LocaleCompare(a.name, b.name, collation)
    ELSE b.cpu - a.cpu

\* the comparator of sortedProcs.sort for sortBy
Compare(a, b, sortBy, collation) ==
    IF sortBy = Str("memory") THEN b.memRss - a.memRss
    ELSE IF sortBy = Str("name") THEN LocaleCompare(a.name, b.name, collation)
    ELSE b.cpu - a.cpu

\* Array.prototype.sort is stable: x goes behind every element not greater
RECURSIVE InsertSorted(_, _, _, _)
InsertSorted(x, sorted, sortBy, collation) ==
    IF Len(sorted) = 0 THEN <<x>>
    ELSE IF Compare(Head(sorted), x, sortBy, collation) <= 0
         THEN <<Head(sorted)>> \o InsertSorted(x, Tail(sorted), sortBy, collation)
         ELSE <<x>> \o sorted

RECURSIVE SortProcs(_, _, _)
SortProcs(list, sortBy, collation) ==
    IF Len(list) = 0 THEN <<>>
    ELSE InsertSorted(list[Len(list)],
                      SortProcs(SubSeq(list, 1, Len(list) - 1), sortBy, collation),
                      sortBy, collation)

\* Array.prototype.slice(0, end) for an integer end
SliceTo(list, end) ==
    LET final == IF end < 0 THEN Max(Len(list) + end, 0) ELSE Min(end, Len(list))
    IN  SubSeq(list, 1, final)

\* (tenths).toFixed(1) of a non-negative number given in tenths
Fixed1(tenths) == ToString(tenths \div 10) \o "." \o ToString(tenths % 10)

\* the callback of .map: one entry of `processes`
ProcessEntry(proc, totalmem) ==
    [ pid |-> proc.pid,
      name |-> proc.name,
      cpu_percent |-> Fixed1(proc.cpu) \o "%",
      memory_mb |-> Fixed1((proc.memRss * 10 + 524288) \div 1048576) \o " MB",
      memory_percent |->
          (IF proc.memVss # 0
           THEN Fixed1((proc.memVss * 2000 + totalmem) \div (2 * totalmem))
           ELSE "0.0") \o "%",
      status |-> proc.state,
      started |-> proc.started,
      user |-> IF proc.user # "" THEN proc.user ELSE "N/A" ]

\* parameter defaults: `limit = 20, sortBy = 'cpu'`
LimitOf(args) ==
    IF IsUndefined(args) \/ IsUndefined(args.limit) THEN DefaultLimit ELSE args.limit.num
SortByOf(args) ==
    IF IsUndefined(args) \/ IsUndefined(args.sort_by) THEN Str("cpu") ELSE args.sort_by

\* the object getRunningProcesses returns
ProcessesResult(processes, limit, sortBy, hst) ==
    LET sortedProcs == SortProcs(processes.list, sortBy, hst.collation)
        top == SliceTo(sortedProcs, limit)
    IN  [ summary |-> [ total_processes |-> processes.all,
                        running |-> processes.running,
                        sleeping |-> processes.sleeping,
                        blocked |-> processes.blocked ],
          processes |-> [i \in 1..Len(top) |-> ProcessEntry(top[i], hst.totalmem)] ]

-----------------------------------------------------------------------------
(* The handlers that only reshape provider data *)

MonitorTool == "get_monitor_info"
ProcessTool == "get_running_processes"
QueryTools == {"get_cpu_info", "get_memory_info", "get_disk_usage",
               "get_system_info", "get_network_info", "get_quick_stats"}
\* the names of the `switch`
ToolNames == QueryTools \cup {MonitorTool, ProcessTool}

\* mutant: no provider call of the handlers has a .catch
UnguardedAll(tool) ==
    CASE tool = "get_cpu_info" -> {"si.cpu", "si.currentLoad", "si.cpuTemperature"}
      [] tool = "get_memory_info" -> {"si.mem"}
      [] tool = "get_disk_usage" -> {"si.fsSize"}
      [] tool = "get_system_info" -> {"si.osInfo", "si.system", "si.uuid", "si.versions"}
      [] tool = "get_network_info" -> {"si.networkInterfaces", "si.networkConnections"}
      [] tool = "get_quick_stats" -> {"si.currentLoad", "si.mem", "si.fsSize"}

\* the provider calls of a handler that fail the handler when they reject
Unguarded(tool) ==
    CASE tool = "get_cpu_info" -> {"si.cpu", "si.currentLoad"}
      [] tool = "get_memory_info" -> {"si.mem"}
      [] tool = "get_disk_usage" -> {"si.fsSize"}
      [] tool = "get_system_info" -> {"si.osInfo", "si.system", "si.versions"}
      [] tool = "get_network_info" -> {"si.networkInterfaces"}
      [] tool = "get_quick_stats" -> {"si.currentLoad", "si.mem", "si.fsSize"}

\* the provider calls with a .catch(() => default)
Guarded(tool) ==
    CASE tool = "get_cpu_info" -> {"si.cpuTemperature"}
      [] tool = "get_system_info" -> {"si.uuid"}
      [] tool = "get_network_info" -> {"si.networkConnections"}
      [] OTHER -> {}

\* the calls in the order the handler issues them
QueryOrder(tool) ==
    CASE tool = "get_cpu_info" -> <<"si.cpu", "si.currentLoad", "si.cpuTemperature">>
      [] tool = "get_memory_info" -> <<"si.mem">>
      [] tool = "get_disk_usage" -> <<"si.fsSize">>
      [] tool = "get_system_info" -> <<"si.osInfo", "si.system", "si.uuid", "si.versions">>
      [] tool = "get_network_info" -> <<"si.networkInterfaces", "si.networkConnections">>
      [] tool = "get_quick_stats" -> <<"si.currentLoad", "si.mem", "si.fsSize">>

\* promise.catch(() => default): the default when the call rejected
Catch(call, failed, answer, default) ==
    IF call \in failed THEN default ELSE answer

\* what the guarded provider calls answer when they do not reject
TemperatureAnswer == [main |-> Num(48)]
UuidAnswer == [hardware |-> "4c4c4544-0042"]
ConnectionsAnswer ==
    << [protocol |-> "tcp", state |-> "listen"],
       [protocol |-> "tcp", state |-> "established"],
       [protocol |-> "udp", state |-> ""] >>

\* temp.main ? `${temp.main}°C` : 'Not available'
TemperatureText(temp) ==
    IF IsNull(temp.main) \/ temp.main = Num(0) THEN "Not available"
    ELSE ToString(temp.main.num) \o "°C"

\* value || 'N/A'
OrNA(value) == IF value = "" THEN "N/A" ELSE value

\* connections.filter(c => c[field] === value).length
CountWhere(connections, field, value) ==
    Len(SelectSeq(connections, LAMBDA c : c[field] = value))

ConnectionCounts(connections) ==
    [total |-> Len(connections),
     tcp |-> CountWhere(connections, "protocol", "tcp"),
     udp |-> CountWhere(connections, "protocol", "udp"),
     listening |-> CountWhere(connections, "state", "listen"),
     established |-> CountWhere(connections, "state", "established")]

\* what a handler returns when no unguarded call rejected; `failed` are the
\* calls that rejected
QueryResult(tool, failed) ==
    CASE tool = "get_cpu_info" ->
           LET temp == Catch("si.cpuTemperature", failed, TemperatureAnswer,
                             [main |-> JNull])
           IN  [brand |-> "cpu.brand", usage |-> "currentLoad",
                temperature |-> TemperatureText(temp)]
      [] tool = "get_system_info" ->
           LET uuid == Catch("si.uuid", failed, UuidAnswer, [hardware |-> "N/A"])
           IN  [operating_system |-> "osInfo", versions |-> "versions",
                hardware |-> [model |-> "system.model",
                              uuid |-> OrNA(uuid.hardware)]]
      [] tool = "get_network_info" ->
           LET connections == Catch("si.networkConnections", failed,
                                    ConnectionsAnswer, <<>>)
           IN  [interfaces |-> "networkInterfaces",
                connections |-> ConnectionCounts(connections)]
      [] OTHER -> [tool |-> tool, data |-> Unguarded(tool)]

-----------------------------------------------------------------------------
(* The CallToolRequestSchema handler *)

\* JSON.stringify(result, null, 2): text that denotes the result
Stringify(result) == [json |-> result]

\* the object returned after the switch
SuccessResponse(result) ==
    [content |-> <<[type |-> "text", text |-> Stringify(result)]>>]

\* mutant: the error text is returned without the flag
ErrorResponseUnflagged(message) ==
    [content |-> <<[type |-> "text", text |-> Str("Error: " \o message)]>>]

\* the object returned by the catch block
ErrorResponse(message) ==
    [content |-> <<[type |-> "text", text |-> Str("Error: " \o message)]>>,
     isError |-> TRUE]

ResponseOf(o) ==
    IF o.kind = "raise" THEN ErrorResponse(o.message) ELSE SuccessResponse(o.value)

-----------------------------------------------------------------------------
(* The requests and the host they meet *)

NoHost ==
    [platform |-> "linux", graphics |-> None, exec |-> None, processes |-> None,
     failed |-> {}, collation |-> "icu", totalmem |-> 8000000]

\* get_monitor_info meets the platform and the answers of si.graphics() and
\* of the platform's command
MonitorHost(p, g, e) == [NoHost EXCEPT !.platform = p, !.graphics = g, !.exec = e]

\* get_running_processes meets the answer of si.processes() and the collation
\* of the JavaScript engine
ProcessHost(a, c) == [NoHost EXCEPT !.processes = a, !.collation = c]
Collations == {"icu", "codeunit"}

\* the other tools meet provider calls that reject
QueryHost(f) == [NoHost EXCEPT !.failed = f]

Limits == {Undefined} \cup {Num(n) : n \in (0 - MaxLimit)..MaxLimit}
SortBys == {Undefined, Str("cpu"), Str("memory"), Str("name"), Str("pid")}
ProcessArguments == {Undefined} \cup [limit : Limits, sort_by : SortBys]

UnknownTool == "get_gpu_info"

-----------------------------------------------------------------------------
(* A tool call, step by step *)

\* no SIGINT was delivered
NoShutdown == [awaiting |-> 0, resumed |-> 0, closed |-> FALSE, exit |-> None]

\* no second invocation; `mixed` records that the two invocations in hand
\* were both under way when the event loop went from one to the other
NoCall ==
    [pc |-> "idle", request |-> None, host |-> NoHost, monitors |-> <<>>,
     outcome |-> None, response |-> None, calls |-> <<>>, mixed |-> FALSE]

\* process.exit was not called
Running == shutdown.exit = None

Init ==
    /\ pc = "idle"
    /\ request = None
    /\ host = NoHost
    /\ monitors = <<>>
    /\ outcome = None
    /\ response = None
    /\ calls = <<>>
    /\ shutdown = NoShutdown
    /\ other = NoCall

\* a request arrives
Arrive(name, arguments, hst) ==
    /\ pc = "idle"
    /\ pc' = "dispatch"
    /\ request' = [name |-> name, arguments |-> arguments]
    /\ host' = hst
    /\ monitors' = <<>>
    /\ outcome' = None
    /\ response' = None
    /\ calls' = <<>>
    /\ UNCHANGED shutdown
    /\ other' = [other EXCEPT !.mixed = FALSE]

Receive ==
    /\ Running
    /\ pc = "idle"
    /\ \/ \E p \in Platforms : \E g \in GraphicsAnswers, e \in ExecAnswers(p) :
             Arrive(MonitorTool, Undefined, MonitorHost(p, g, e))
       \/ \E a \in ProcessArguments, ans \in ProcessAnswers, c \in Collations :
             Arrive(ProcessTool, a, ProcessHost(ans, c))
       \/ \E tool \in QueryTools : \E f \in SUBSET (Unguarded(tool) \cup Guarded(tool)) :
             Arrive(tool, Undefined, QueryHost(f))
       \/ Arrive(UnknownTool, Undefined, NoHost)

\* case 'get_monitor_info': getMonitorInfo runs to `await si.graphics()`
DispatchMonitor ==
    /\ Running
    /\ pc = "dispatch" /\ request.name = MonitorTool
    /\ pc' = "await_graphics"
    /\ monitors' = <<>>
    /\ calls' = Append(calls, "si.graphics")
    /\ UNCHANGED <<request, host, outcome, response, shutdown, other>>

\* case 'get_running_processes': runs to `await si.processes()`
DispatchProcesses ==
    /\ Running
    /\ pc = "dispatch" /\ request.name = ProcessTool
    /\ pc' = "await_processes"
    /\ calls' = Append(calls, "si.processes")
    /\ UNCHANGED <<request, host, monitors, outcome, response, shutdown, other>>

\* the other cases: the handler issues its provider calls and awaits them
DispatchQueries ==
    /\ Running
    /\ pc = "dispatch" /\ request.name \in QueryTools
    /\ pc' = "await_queries"
    /\ calls' = calls \o QueryOrder(request.name)
    /\ UNCHANGED <<request, host, monitors, outcome, response, shutdown, other>>

\* default: throw new Error(`Unknown tool: ${name}`)
DispatchUnknown ==
    /\ Running
    /\ pc = "dispatch" /\ request.name \notin ToolNames
    /\ pc' = "respond"
    /\ outcome' = Raise("Unknown tool: " \o request.name)
    /\ UNCHANGED <<request, host, monitors, response, calls, shutdown, other>>

\* si.graphics() rejected: the catch block of getMonitorInfo returns
GraphicsRejected ==
    /\ Running
    /\ pc = "await_graphics" /\ host.graphics.kind = "raise"
    /\ pc' = "respond"
    /\ outcome' = Ok(MonitorError(host.graphics.message, host.platform))
    /\ UNCHANGED <<request, host, monitors, response, calls, shutdown, other>>

\* si.graphics() resolved and a platform strategy is to run: up to its
\* `await execAsync(...)`
GraphicsResolvedExec ==
    /\ Running
    /\ pc = "await_graphics" /\ host.graphics.kind = "ok"
    /\ LET ms == MonitorsFromGraphics(host.graphics.value)
       IN  /\ NeedsPlatform(ms) /\ HasPlatformStrategy(host.platform)
           /\ monitors' = ms
    /\ pc' = "await_exec"
    /\ calls' = Append(calls, PlatformCommand(host.platform))
    /\ UNCHANGED <<request, host, outcome, response, shutdown, other>>

\* si.graphics() resolved and no platform strategy runs: getMonitorInfo
\* returns
GraphicsResolvedReturn ==
    /\ Running
    /\ pc = "await_graphics" /\ host.graphics.kind = "ok"
    /\ LET ms == MonitorsFromGraphics(host.graphics.value)
       IN  /\ ~(NeedsPlatform(ms) /\ HasPlatformStrategy(host.platform))
           /\ monitors' = FinalFallback(ms)
    /\ pc' = "respond"
    /\ outcome' = Ok(MonitorResult(monitors', host.platform))
    /\ UNCHANGED <<request, host, response, calls, shutdown, other>>

\* the platform command ended: the strategy returns its records and
\* getMonitorInfo returns
ExecEnded ==
    /\ Running
    /\ pc = "await_exec"
    /\ Settles(host.exec, Timeout(host.platform))
    /\ monitors' = FinalFallback(PlatformMonitors(host.platform,
                          ExecSettled(host.exec, Timeout(host.platform))))
    /\ pc' = "respond"
    /\ outcome' = Ok(MonitorResult(monitors', host.platform))
    /\ UNCHANGED <<request, host, response, calls, shutdown, other>>

\* si.processes() ended: getRunningProcesses returns or raises
ProcessesEnded ==
    /\ Running
    /\ pc = "await_processes"
    /\ pc' = "respond"
    /\ outcome' = IF host.processes.kind = "raise" THEN host.processes
                  ELSE Ok(ProcessesResult(host.processes.value, LimitOf(request.arguments),
                                          SortByOf(request.arguments), host))
    /\ UNCHANGED <<request, host, monitors, response, calls, shutdown, other>>

\* the provider calls ended and none of the unguarded ones rejected
QueriesResolved ==
    /\ Running
    /\ pc = "await_queries"
    /\ host.failed \cap Unguarded(request.name) = {}
    /\ pc' = "respond"
    /\ outcome' = Ok(QueryResult(request.name, host.failed))
    /\ UNCHANGED <<request, host, monitors, response, calls, shutdown, other>>

\* an unguarded provider call rejected: the handler raises the first rejection
QueriesRejected ==
    /\ Running
    /\ pc = "await_queries"
    /\ \E q \in host.failed \cap Unguarded(request.name) :
          outcome' = Raise(q \o " failed")
    /\ pc' = "respond"
    /\ UNCHANGED <<request, host, monitors, response, calls, shutdown, other>>

\* the CallTool handler returns the response
Respond ==
    /\ Running
    /\ pc = "respond"
    /\ pc' = "done"
    /\ response' = ResponseOf(outcome)
    /\ UNCHANGED <<request, host, monitors, outcome, calls, shutdown, other>>

\* the response is sent; nothing of the call is kept
Release ==
    /\ Running
    /\ pc = "done"
    /\ pc' = "idle"
    /\ request' = None
    /\ host' = NoHost
    /\ monitors' = <<>>
    /\ outcome' = None
    /\ response' = None
    /\ calls' = <<>>
    /\ UNCHANGED <<shutdown, other>>

Next ==
    \/ Receive
    \/ DispatchMonitor
    \/ DispatchProcesses
    \/ DispatchQueries
    \/ DispatchUnknown
    \/ GraphicsRejected
    \/ GraphicsResolvedExec
    \/ GraphicsResolvedReturn
    \/ ExecEnded
    \/ ProcessesEnded
    \/ QueriesResolved
    \/ QueriesRejected
    \/ Respond
    \/ Release

Spec == Init /\ [][Next]_vars

-----------------------------------------------------------------------------
(* Liveness of a request *)

\* requests of every tool, with few answers of the host
ReceiveFew ==
    /\ Running
    /\ pc = "idle"
    /\ \/ \E p \in Platforms :
          \E g \in {Raise("graphics unavailable"), Ok(JNull), Ok([controllers |-> <<>>])} :
          \E e \in ExecAnswers(p) \cap {None, ExecFail, ExecOverrun} :
             Arrive(MonitorTool, Undefined, MonitorHost(p, g, e))
       \/ \E ans \in {a \in ProcessAnswers : a.kind = "raise" \/ a.value.all = 0} :
             Arrive(ProcessTool, Undefined, ProcessHost(ans, "icu"))
       \/ \E tool \in QueryTools : \E f \in {{}, Unguarded(tool)} :
             Arrive(tool, Undefined, QueryHost(f))
       \/ Arrive(UnknownTool, Undefined, NoHost)

NextLive ==
    \/ ReceiveFew
    \/ DispatchMonitor
    \/ DispatchProcesses
    \/ DispatchQueries
    \/ DispatchUnknown
    \/ GraphicsRejected
    \/ GraphicsResolvedExec
    \/ GraphicsResolvedReturn
    \/ ExecEnded
    \/ ProcessesEnded
    \/ QueriesResolved
    \/ QueriesRejected
    \/ Respond
    \/ Release

\* a platform command ends or is killed by its timeout, and the event loop
\* resumes the handler whose promise has settled
SpecLive ==
    Init /\ [][NextLive]_vars /\ WF_vars(ExecEnded) /\ WF_vars(Respond)

-----------------------------------------------------------------------------
(* The interrupt signal *)

\* mutant: process.exit(0) without awaiting the close
MayExitUnawaited(sd) == sd.awaiting + sd.resumed > 0

\* process.exit(0) stands after `await this.server.close()`: a handler
\* reaches it once its close has resolved
MayExit(sd) == sd.resumed > 0

\* SIGINT is delivered: the listener runs to `await this.server.close()`
Sigint ==
    /\ Running
    /\ shutdown.awaiting + shutdown.resumed < MaxSignals
    /\ shutdown' = [shutdown EXCEPT !.awaiting = @ + 1]
    /\ UNCHANGED <<pc, request, host, monitors, outcome, response, calls, other>>

\* the close of the server's transport completes and its promise resolves
CloseResolved ==
    /\ Running
    /\ shutdown.awaiting > 0
    /\ shutdown' = [shutdown EXCEPT !.awaiting = @ - 1, !.resumed = @ + 1,
                                    !.closed = TRUE]
    /\ UNCHANGED <<pc, request, host, monitors, outcome, response, calls, other>>

\* process.exit(0)
ExitCalled ==
    /\ Running
    /\ MayExit(shutdown)
    /\ shutdown' = [shutdown EXCEPT !.exit = Num(0)]
    /\ UNCHANGED <<pc, request, host, monitors, outcome, response, calls, other>>

NextShutdown ==
    \/ ReceiveFew
    \/ DispatchMonitor
    \/ DispatchProcesses
    \/ DispatchQueries
    \/ DispatchUnknown
    \/ GraphicsRejected
    \/ GraphicsResolvedExec
    \/ GraphicsResolvedReturn
    \/ ExecEnded
    \/ ProcessesEnded
    \/ QueriesResolved
    \/ QueriesRejected
    \/ Respond
    \/ Release
    \/ Sigint
    \/ CloseResolved
    \/ ExitCalled

\* the event loop runs a continuation whose promise has resolved, and the
\* close of the transport completes
SpecShutdown ==
    Init /\ [][NextShutdown]_vars /\ WF_vars(CloseResolved) /\ WF_vars(ExitCalled)

-----------------------------------------------------------------------------
(* Two invocations *)

\* mutant: the handler's result is kept in a field of the server, which
\* holds what was assigned last
RestoreShared(own, current) == IF current = None THEN own ELSE current

\* `let result`: declared in the body of the handler, so each invocation
\* has its own and finds it again when it is resumed
Restore(own, current) == own

\* the invocations under way are both at an await
BothUnderWay == pc \notin {"idle", "done"} /\ other.pc \notin {"idle", "done"}

\* the event loop leaves the running invocation at its await and resumes
\* the other one
Swap ==
    /\ Running
    /\ other' = [pc |-> pc, request |-> request, host |-> host,
                 monitors |-> monitors, outcome |-> outcome,
                 response |-> response, calls |-> calls,
                 mixed |-> other.mixed \/ BothUnderWay]
    /\ pc' = other.pc
    /\ request' = other.request
    /\ host' = other.host
    /\ monitors' = other.monitors
    /\ outcome' = Restore(other.outcome, outcome)
    /\ response' = other.response
    /\ calls' = other.calls
    /\ UNCHANGED shutdown

\* platform command outputs that give records
RecordOutputs ==
    { Ok([text |-> "DP-2 disconnected 640x480\neDP-1 connected 1366x768+0+0\n"]),
      Ok([json |-> [SPDisplaysDataType |->
             << [_name |-> "GPU2", spdisplays_ndrvs |->
                    <<MacMonitor("Color LCD Retina", "2560 x 1600")>>] >>]]),
      Ok([json |-> [obj |-> [InstanceName |-> "DISPLAY\\DEL1",
                             MaxHorizontalImageSize |-> 60,
                             MaxVerticalImageSize |-> 34]]]) }

\* requests to run side by side: get_monitor_info with and without records,
\* get_running_processes with at most one process, the other tools with at
\* most one failing provider call
ReceiveSome ==
    /\ Running
    /\ pc = "idle"
    /\ \/ \E p \in Platforms :
          \E g \in {Raise("graphics unavailable"), Ok(JNull),
                    Ok([displays |-> <<[model |-> "DELL U2720Q", vendor |-> "Dell",
                                        resolutionX |-> 3840, resolutionY |-> 2160,
                                        main |-> TRUE, builtin |-> FALSE]>>])}
                   \cap GraphicsAnswers :
          \E e \in ExecAnswers(p) \cap ({None, ExecFail} \cup RecordOutputs) :
             Arrive(MonitorTool, Undefined, MonitorHost(p, g, e))
       \/ \E ans \in {a \in ProcessAnswers : a.kind = "raise" \/ a.value.all <= 1} :
             Arrive(ProcessTool, Undefined, ProcessHost(ans, "icu"))
       \/ \E tool \in {"get_cpu_info", "get_memory_info"} :
          \E f \in {{}} \cup {{q} : q \in Unguarded(tool) \cup Guarded(tool)} :
             Arrive(tool, Undefined, QueryHost(f))
       \/ Arrive(UnknownTool, Undefined, NoHost)

NextTwo ==
    \/ ReceiveSome
    \/ DispatchMonitor
    \/ DispatchProcesses
    \/ DispatchQueries
    \/ DispatchUnknown
    \/ GraphicsRejected
    \/ GraphicsResolvedExec
    \/ GraphicsResolvedReturn
    \/ ExecEnded
    \/ ProcessesEnded
    \/ QueriesResolved
    \/ QueriesRejected
    \/ Respond
    \/ Release
    \/ Swap

SpecTwo == Init /\ [][NextTwo]_vars

-----------------------------------------------------------------------------
(* Vocabulary of the properties *)

MonitorDone == pc = "done" /\ request.name = MonitorTool
ProcessDone == pc = "done" /\ request.name = ProcessTool

\* the call returned {total_monitors, monitors, system}
HasMonitors == MonitorDone /\ "monitors" \in DOMAIN outcome.value

\* the displays the cross-platform graphics query yielded
GraphicsYield ==
    IF host.graphics.kind = "ok" /\ "displays" \in DOMAIN host.graphics.value
    THEN host.graphics.value.displays ELSE <<>>

\* the records the platform strategy of the running operating system yields
PlatformYield ==
    CASE host.platform = "win32" -> GetWindowsMonitors(ExecSettled(host.exec, 10000))
      [] host.platform = "darwin" -> GetMacOSMonitors(ExecSettled(host.exec, 15000))
      [] host.platform = "linux" -> GetLinuxMonitors(ExecSettled(host.exec, 10000))
      [] OTHER -> <<>>

PlatformTag ==
    CASE host.platform = "win32" -> "wmi"
      [] host.platform = "darwin" -> "system_profiler"
      [] host.platform = "linux" -> "xrandr"
      [] OTHER -> "none"

Flagged == "isError" \in DOMAIN response /\ response.isError

-----------------------------------------------------------------------------
(* C1 *)

\* C1: when the graphics query and the platform strategy both yield zero
\* records (also on an operating system without a platform strategy), the
\* monitors of the result are exactly one record tagged `fallback` with
\* unknown width and height.
C1_FallbackWhenNothingFound ==
    (MonitorDone /\ host.graphics.kind = "ok"
       /\ GraphicsYield = <<>> /\ PlatformYield = <<>>)
    => /\ HasMonitors
       /\ Len(outcome.value.monitors) = 1
       /\ outcome.value.monitors[1].detection_method = "fallback"
       /\ outcome.value.monitors[1].width = Unknown
       /\ outcome.value.monitors[1].height = Unknown
       /\ ~Flagged

\* a Linux host whose xrandr printed lines, none of them a display
C1_Witness ==
    /\ MonitorDone /\ host.platform = "linux"
    /\ host.graphics = Ok([displays |-> <<>>])
    /\ host.exec.kind = "ok" /\ Len(host.exec.value.text) > 1
    /\ Len(calls) = 2
    /\ HasMonitors /\ outcome.value.monitors = <<FallbackRecord>>

-----------------------------------------------------------------------------
(* C2 *)

\* record i of the result is display i of the provider, tagged `tag`
C2_IsDisplay(rec, display, i, tag) ==
    /\ rec.id = i
    /\ rec.detection_method = tag
    /\ display.model # "" => rec.name = display.model
    /\ display.vendor # "" => rec.vendor = display.vendor
    /\ display.resolutionX # 0 => rec.width = Num(display.resolutionX)
    /\ display.resolutionY # 0 => rec.height = Num(display.resolutionY)
    /\ rec.main = display.main /\ rec.builtin = display.builtin

C2_ResultIsGraphics(tag) ==
    (MonitorDone /\ Len(GraphicsYield) >= 1)
    => /\ HasMonitors
       /\ Len(outcome.value.monitors) = Len(GraphicsYield)
       /\ \A i \in 1..Len(GraphicsYield) :
             C2_IsDisplay(outcome.value.monitors[i], GraphicsYield[i], i, tag)

\* C2 as stated: if the graphics query yields N >= 1 displays, the monitors
\* of the result are those N records in the provider's order, each tagged
\* `systeminfo`, whatever the platform strategy would have produced.
C2_TaggedSysteminfo == C2_ResultIsGraphics("systeminfo")

\* C2 amended: the same, with the tag the code writes, `systeminformation`.
C2_TaggedSysteminformation == C2_ResultIsGraphics("systeminformation")

\* two displays on a Linux host whose xrandr would have yielded a record
C2_Witness ==
    /\ MonitorDone /\ host.platform = "linux"
    /\ Len(GraphicsYield) = 2
    /\ Len(PlatformYield) >= 1
    /\ HasMonitors /\ Len(outcome.value.monitors) = 2
    /\ outcome.value.monitors[2].detection_method = "systeminformation"

-----------------------------------------------------------------------------
(* C3 *)

\* C3: if the graphics query yields zero records and the platform strategy
\* of the operating system (win32 -> wmi, darwin -> system_profiler,
\* linux -> xrandr) yields M >= 1 records, the monitors of the result are
\* exactly those M records in emission order, tagged with that platform's
\* method, and no fallback record is added.
C3_ResultIsPlatform ==
    (MonitorDone /\ host.graphics.kind = "ok"
       /\ GraphicsYield = <<>> /\ Len(PlatformYield) >= 1)
    => /\ HasMonitors
       /\ outcome.value.monitors = PlatformYield
       /\ outcome.value.total_monitors = Len(PlatformYield)
       /\ \A i \in 1..Len(outcome.value.monitors) :
             outcome.value.monitors[i].detection_method = PlatformTag

\* a macOS host whose system_profiler listed two monitors
C3_Witness ==
    /\ MonitorDone /\ host.platform = "darwin"
    /\ GraphicsYield = <<>> /\ host.graphics.kind = "ok"
    /\ HasMonitors /\ Len(outcome.value.monitors) = 2
    /\ outcome.value.monitors[2].detection_method = "system_profiler"
    /\ calls = <<"si.graphics", PlatformCommand("darwin")>>

-----------------------------------------------------------------------------
(* C4 *)

\* C4: whichever strategies raise during a get_monitor_info call, the
\* graphics query included, the call returns a result with a non-empty
\* monitors sequence: the records of the next strategy that yields some, or
\* the fallback record.
C4_NeverFailsOutward ==
    MonitorDone
    => /\ HasMonitors
       /\ Len(outcome.value.monitors) >= 1
       /\ (GraphicsYield = <<>> /\ Len(PlatformYield) >= 1)
             => outcome.value.monitors = PlatformYield
       /\ ~Flagged

-----------------------------------------------------------------------------
(* C5 *)

\* C5: in every get_monitor_info result all records of the monitors sequence
\* carry the same detection-method tag: records of two strategies, or of a
\* strategy and the fallback, never appear together.
C5_OneStrategy ==
    HasMonitors
    => \A i, j \in 1..Len(outcome.value.monitors) :
          outcome.value.monitors[i].detection_method
            = outcome.value.monitors[j].detection_method

\* three xrandr records in one result
C5_Witness ==
    /\ HasMonitors /\ Len(outcome.value.monitors) >= 2
    /\ outcome.value.monitors[1].detection_method = "xrandr"
    /\ outcome.value.monitors[2].detection_method = "xrandr"

-----------------------------------------------------------------------------
(* C6 *)

\* whether the selected handler raises, read off the request and the host
HandlerRaises ==
    CASE request.name = MonitorTool -> FALSE
      [] request.name = ProcessTool -> host.processes.kind = "raise"
      [] request.name \in QueryTools -> host.failed \cap Unguarded(request.name) # {}
      [] OTHER -> TRUE     \* not a declared tool: the dispatcher throws

\* C6: every request is answered by one text block; a failure raised by the
\* selected handler, and an operation name that is not a declared tool, is
\* answered by the text `Error: <message>` with the error flag set; and a
\* response carries the error flag only when the handler raised.
C6_ErrorsAreResponses ==
    /\ pc = "respond" => outcome # None
    /\ pc = "done" =>
         /\ Len(response.content) = 1
         /\ response.content[1].type = "text"
         /\ Flagged <=> HandlerRaises
         /\ Flagged => /\ outcome.kind = "raise"
                       /\ response.content[1].text = Str("Error: " \o outcome.message)
         /\ request.name \notin ToolNames =>
               response.content[1].text = Str("Error: Unknown tool: " \o request.name)
         /\ ~Flagged => response.content[1].text = Stringify(outcome.value)

\* get_system_info whose si.osInfo() rejected
C6_Witness ==
    /\ pc = "done" /\ request.name = "get_system_info"
    /\ host.failed = {"si.osInfo"}
    /\ Flagged
    /\ response.content = <<[type |-> "text", text |-> Str("Error: si.osInfo failed")]>>

-----------------------------------------------------------------------------
(* C7 *)

\* the limit in force: the caller's, or the default
RequestedLimit ==
    IF IsUndefined(request.arguments) \/ IsUndefined(request.arguments.limit)
    THEN DefaultLimit ELSE request.arguments.limit.num

\* C7: for every integer limit and every process list the processes
\* sequence has exactly min(limit, number of available processes) entries,
\* a limit <= 0 yields an empty sequence, and the summary counts are the
\* provider's totals whatever the limit.
C7_LimitTruncation ==
    (ProcessDone /\ outcome.kind = "ok")
    => LET available == Len(host.processes.value.list)
       IN  /\ Len(outcome.value.processes)
                = (IF RequestedLimit <= 0 THEN 0 ELSE Min(RequestedLimit, available))
           /\ outcome.value.summary.total_processes = host.processes.value.all
           /\ outcome.value.summary.running = host.processes.value.running
           /\ outcome.value.summary.sleeping = host.processes.value.sleeping
           /\ outcome.value.summary.blocked = host.processes.value.blocked

-----------------------------------------------------------------------------
(* C8 *)

\* the process of the provider's list that an entry of the result shows
ProcOf(entry) ==
    CHOOSE q \in {host.processes.value.list[i] :
                    i \in 1..Len(host.processes.value.list)} : q.pid = entry.pid

\* the order asked for: sort_by, or `cpu` when it is omitted
RequestedSort ==
    IF IsUndefined(request.arguments) \/ IsUndefined(request.arguments.sort_by)
    THEN "cpu" ELSE request.arguments.sort_by.str

\* a may stand before b in the order `sort`; names compare by `names`:
\* "unit" is the lexicographic order of the code units, "locale" the order
\* of the host's String.prototype.localeCompare
InOrder(a, b, sort, names) ==
    CASE sort = "cpu" -> a.cpu >= b.cpu
      [] sort = "memory" -> a.memRss >= b.memRss
      [] sort = "name" ->
           IF names = "unit" THEN CompareBy(a.name, b.name, "unit") <= 0
           ELSE LocaleCompare(a.name, b.name, host.collation) <= 0

C8_TopInOrder(names) ==
    (ProcessDone /\ outcome.kind = "ok" /\ RequestedSort \in {"cpu", "memory", "name"})
    => LET top == outcome.value.processes
           list == host.processes.value.list
           shown == {top[i].pid : i \in 1..Len(top)}
       IN  /\ \A i \in 1..Len(top) : \E k \in 1..Len(list) : list[k].pid = top[i].pid
           /\ \A i, j \in 1..Len(top) :
                 i < j => /\ top[i].pid # top[j].pid
                          /\ InOrder(ProcOf(top[i]), ProcOf(top[j]), RequestedSort, names)
           /\ \A i \in 1..Len(top) : \A k \in 1..Len(list) :
                 list[k].pid \notin shown
                   => InOrder(ProcOf(top[i]), list[k], RequestedSort, names)

\* C8 as stated: the returned processes are the first entries of the whole
\* process set ordered by sort_by (cpu when omitted): non-increasing cpu,
\* non-increasing memory, ascending lexicographic name; truncation comes
\* after sorting.
C8_SortedLexicographic == C8_TopInOrder("unit")

\* C8 amended: the same, the names ascending in the order of the host's
\* String.prototype.localeCompare.
C8_SortedByLocaleCompare == C8_TopInOrder("locale")

\* Xorg, bash and Code by name under ICU collation, the first two returned
C8_Witness ==
    /\ ProcessDone /\ outcome.kind = "ok"
    /\ RequestedSort = "name" /\ host.collation = "icu"
    /\ Len(host.processes.value.list) = 3
    /\ Len(outcome.value.processes) = 2
    /\ outcome.value.processes[1].name = "bash"
    /\ outcome.value.processes[2].name = "Code"
    /\ host.processes.value.list[1].name = "Xorg"

-----------------------------------------------------------------------------
(* C9 *)

\* the Linux strategy ran and its command printed something
LinuxRan ==
    /\ MonitorDone /\ host.platform = "linux"
    /\ host.graphics.kind = "ok" /\ GraphicsYield = <<>>
    /\ host.exec.kind = "ok"

\* the line contains <digits>x<digits>
HasResolution(line) ==
    \E j \in 2..(Len(line) - 1) :
        Char(line, j) = "x" /\ IsDigit(Char(line, j - 1)) /\ IsDigit(Char(line, j + 1))

ShouldYieldRecord(line) ==
    /\ Includes(line, " connected")
    /\ ~Includes(line, "disconnected")
    /\ HasResolution(line)

\* C9: an output line produces a record if and only if it contains
\* ` connected`, does not contain `disconnected`, and contains a
\* <digits>x<digits> resolution: the records of the result are those of
\* these lines, in order, and the fallback when there is none.
C9_LineFilter ==
    LinuxRan
    => LET lines == Split(host.exec.value.text, "\n")
           yielding == SelectSeq(lines, ShouldYieldRecord)
           ms == outcome.value.monitors
       IN  IF Len(yielding) = 0 THEN ms = <<FallbackRecord>>
           ELSE /\ Len(ms) = Len(yielding)
                /\ \A k \in 1..Len(ms) :
                      /\ ms[k].detection_method = "xrandr"
                      /\ SubSeq(yielding[k], 1, Len(ms[k].name)) = ms[k].name
                      /\ Includes(yielding[k], ms[k].width.str \o "x" \o ms[k].height.str)

\* a disconnected output with a resolution before a connected one
C9_Witness ==
    /\ LinuxRan
    /\ host.exec.value.text = "DP-2 disconnected 640x480\neDP-1 connected 1366x768+0+0\n"
    /\ Len(outcome.value.monitors) = 1
    /\ outcome.value.monitors[1].name = "eDP-1"
    /\ outcome.value.monitors[1].width = Str("1366")

-----------------------------------------------------------------------------
(* C10 *)

\* the first whitespace-delimited token of a line
RECURSIVE FirstToken(_)
FirstToken(line) ==
    IF Len(line) > 0 /\ IsSpace(Char(line, 1))
    THEN FirstToken(SubSeq(line, 2, Len(line)))
    ELSE FirstPart(line)

AllDigits(s) == Len(s) > 0 /\ \A i \in 1..Len(s) : IsDigit(Char(s, i))

\* C10: for every line that produces a record, name is the first
\* whitespace-delimited token of the line, width and height are the two
\* digit groups of the <digits>x<digits> match, and is_primary is true
\* exactly when the line contains `primary`.
C10_FieldExtraction ==
    (LinuxRan /\ Len(PlatformYield) >= 1)
    => LET lines == SelectSeq(Split(host.exec.value.text, "\n"), LineYieldsRecord)
           ms == outcome.value.monitors
       IN  /\ Len(ms) = Len(lines)
           /\ \A k \in 1..Len(ms) :
                 /\ ms[k].name = FirstToken(lines[k])
                 /\ AllDigits(ms[k].width.str) /\ AllDigits(ms[k].height.str)
                 /\ Includes(lines[k], ms[k].width.str \o "x" \o ms[k].height.str)
                 /\ ms[k].is_primary <=> Includes(lines[k], "primary")

-----------------------------------------------------------------------------
(* C11 *)

\* the macOS strategy ran on parsed output none of whose entries is null
MacRan ==
    /\ MonitorDone /\ host.platform = "darwin"
    /\ host.graphics.kind = "ok" /\ Len(GraphicsYield) = 0
    /\ host.exec.kind = "ok" /\ "json" \in DOMAIN host.exec.value
    /\ "SPDisplaysDataType" \in DOMAIN host.exec.value.json
    /\ \A a \in 1..Len(host.exec.value.json.SPDisplaysDataType) :
          LET adapter == host.exec.value.json.SPDisplaysDataType[a]
          IN  /\ ~IsNull(adapter)
              /\ "spdisplays_ndrvs" \in DOMAIN adapter
                 => \A m \in 1..Len(adapter.spdisplays_ndrvs) :
                       ~IsNull(adapter.spdisplays_ndrvs[m])

\* the monitor entries of all adapters, in order
RECURSIVE MacEntries(_)
MacEntries(adapters) ==
    IF Len(adapters) = 0 THEN <<>>
    ELSE (IF "spdisplays_ndrvs" \in DOMAIN Head(adapters)
          THEN Head(adapters).spdisplays_ndrvs ELSE <<>>)
         \o MacEntries(Tail(adapters))

\* the digits a text starts with
RECURSIVE DigitPrefix(_)
DigitPrefix(s) ==
    IF Len(s) > 0 /\ Char(s, 1) \in {"0", "1", "2", "3", "4", "5", "6", "7", "8", "9"}
    THEN SubSeq(s, 1, 1) \o DigitPrefix(SubSeq(s, 2, Len(s)))
    ELSE ""

\* the text after the first n characters
Drop(s, n) == SubSeq(s, n + 1, Len(s))

HasSeparator(s) == \E i \in 1..(Len(s) - 2) : SubSeq(s, i, i + 2) = " x "

\* <width> x <height> ...
IsResolutionForm(s) ==
    LET w == DigitPrefix(s)
        rest == Drop(s, Len(w))
    IN  /\ Len(w) > 0
        /\ Len(rest) >= 3 /\ SubSeq(rest, 1, 3) = " x "
        /\ Len(DigitPrefix(Drop(rest, 3))) > 0

\* C11: for every monitor entry of the macOS strategy, a resolution of the
\* form `<width> x <height> ...` gives width and height equal to the
\* leading numeric token on each side of ` x `, a resolution without ` x `
\* (or an absent one) gives `Unknown` for both, and every entry has its
\* record: the parse neither raises nor drops one.
C11_MacResolutionParsing ==
    (MacRan /\ Len(MacEntries(host.exec.value.json.SPDisplaysDataType)) > 0)
    => LET entries == MacEntries(host.exec.value.json.SPDisplaysDataType)
           ms == outcome.value.monitors
       IN  /\ Len(ms) = Len(entries)
           /\ \A k \in 1..Len(ms) :
                 LET s == entries[k]._spdisplays_resolution
                     w == DigitPrefix(s)
                 IN  /\ ms[k].detection_method = "system_profiler"
                     /\ IsResolutionForm(s)
                        => /\ ms[k].width = Str(w)
                           /\ ms[k].height = Str(DigitPrefix(Drop(s, Len(w) + 3)))
                     /\ ~HasSeparator(s)
                        => ms[k].width = Unknown /\ ms[k].height = Unknown

\* one adapter with `1920 x 1080 @ 60Hz` and with `1920x1080`
C11_Witness ==
    /\ MacRan
    /\ Len(outcome.value.monitors) = 2
    /\ MacEntries(host.exec.value.json.SPDisplaysDataType)[1]._spdisplays_resolution
          = "1920 x 1080 @ 60Hz"
    /\ outcome.value.monitors[1].width = Str("1920")
    /\ outcome.value.monitors[1].height = Str("1080")
    /\ MacEntries(host.exec.value.json.SPDisplaysDataType)[2]._spdisplays_resolution
          = "1920x1080"
    /\ outcome.value.monitors[2].width = Unknown

-----------------------------------------------------------------------------
(* C12 *)

\* the sub-queries the handlers guard, and the tool each belongs to
GuardedCalls == {"si.cpuTemperature", "si.uuid", "si.networkConnections"}

\* a guarded sub-query failed and no other sub-query did
OnlyGuardedFailed ==
    /\ pc = "done" /\ request.name \in QueryTools
    /\ host.failed # {} /\ host.failed \subseteq GuardedCalls

\* C12: when the temperature query of get_cpu_info, the hardware-UUID query
\* of get_system_info or the connection enumeration of get_network_info
\* fails, the handler still returns a successful result, in which the value
\* is the default (`Not available`, `N/A`, all connection counts 0) and
\* every other value is the one reported when nothing fails.
C12_GuardedSubQueries ==
    OnlyGuardedFailed
    => /\ ~Flagged
       /\ outcome.kind = "ok"
       /\ response = SuccessResponse(outcome.value)
       /\ LET unfailed == QueryResult(request.name, {})
          IN  CASE request.name = "get_cpu_info" ->
                     /\ outcome.value.temperature = "Not available"
                     /\ outcome.value = [unfailed EXCEPT !.temperature = "Not available"]
                [] request.name = "get_system_info" ->
                     /\ outcome.value.hardware.uuid = "N/A"
                     /\ outcome.value = [unfailed EXCEPT !.hardware.uuid = "N/A"]
                [] request.name = "get_network_info" ->
                     /\ outcome.value.connections
                           = [total |-> 0, tcp |-> 0, udp |-> 0,
                              listening |-> 0, established |-> 0]
                     /\ outcome.value.interfaces = unfailed.interfaces
                [] OTHER -> FALSE

\* the connection enumeration failed and get_network_info answered
C12_Witness ==
    /\ OnlyGuardedFailed
    /\ request.name = "get_network_info"
    /\ host.failed = {"si.networkConnections"}
    /\ outcome.value.connections.total = 0
    /\ QueryResult(request.name, {}).connections.total = 3
    /\ ~Flagged

-----------------------------------------------------------------------------
(* C13 *)

Signalled == shutdown.awaiting + shutdown.resumed > 0
Exited == shutdown.exit # None

\* C13: after SIGINT the process eventually exits, the exit code is 0, and
\* process.exit is called only after the close of the server's transport
\* has completed, whatever request is in flight.
C13_Shutdown ==
    /\ [](Exited => shutdown.exit = Num(0) /\ shutdown.closed)
    /\ [][Exited' /\ ~Exited => shutdown.closed]_vars
    /\ (Signalled ~> Exited)

\* the process exited while a get_monitor_info request awaited its platform
\* command
C13_Witness ==
    /\ Exited /\ shutdown.exit = Num(0) /\ shutdown.closed
    /\ pc = "await_exec"

-----------------------------------------------------------------------------
(* C14 *)

\* C14: in every get_monitor_info result that carries monitors,
\* total_monitors is the number of records, is at least 1, and system is
\* the platform name of the running operating system.
C14_ResultShape ==
    HasMonitors
    => /\ outcome.value.total_monitors = Len(outcome.value.monitors)
       /\ outcome.value.total_monitors >= 1
       /\ outcome.value.system = host.platform
       /\ DOMAIN outcome.value = {"total_monitors", "monitors", "system"}

\* two records found by system_profiler on macOS
C14_Witness ==
    /\ HasMonitors
    /\ host.platform = "darwin" /\ outcome.value.system = "darwin"
    /\ outcome.value.total_monitors = 2
    /\ outcome.value.monitors[2].detection_method = "system_profiler"

-----------------------------------------------------------------------------
(* C15 *)

\* C15: the ids of the records of every result are 1, 2, ..., n in the
\* order of the records, which is the order of their sources: the displays
\* of the graphics query, the yielding lines of xrandr (the lines without a
\* resolution take no id), the monitor entries of all adapters of
\* system_profiler.
C15_RecordNumbering ==
    HasMonitors
    => LET ms == outcome.value.monitors
       IN  /\ \A k \in 1..Len(ms) : ms[k].id = k
           /\ Len(GraphicsYield) > 0
              => /\ Len(ms) = Len(GraphicsYield)
                 /\ \A k \in 1..Len(ms) :
                       ms[k].main = GraphicsYield[k].main
           /\ (LinuxRan /\ ms # <<FallbackRecord>>)
              => LET yielding == SelectSeq(Split(host.exec.value.text, "\n"),
                                           ShouldYieldRecord)
                 IN  /\ Len(ms) = Len(yielding)
                     /\ \A k \in 1..Len(ms) :
                           Includes(yielding[k],
                                    ms[k].width.str \o "x" \o ms[k].height.str)
           /\ (MacRan /\ ms # <<FallbackRecord>>)
              => LET entries == MacEntries(host.exec.value.json.SPDisplaysDataType)
                 IN  /\ Len(ms) = Len(entries)
                     /\ \A k \in 1..Len(ms) :
                           ms[k].retina = Includes(entries[k]._name, "Retina")

\* system_profiler reports two adapters, with one and with two monitors
C15_Witness ==
    /\ HasMonitors /\ MacRan
    /\ Len(host.exec.value.json.SPDisplaysDataType) = 2
    /\ host.exec.value.json.SPDisplaysDataType[1]._name = "GPU2"
    /\ Len(outcome.value.monitors) = 3
    /\ outcome.value.monitors[3].id = 3
    /\ outcome.value.monitors[3].name = "LG"

-----------------------------------------------------------------------------
(* C16 *)

\* the text of a number, as a template literal writes it
IdText(id) == ToString(id)

\* the Windows strategy ran and gave records
WindowsGave ==
    /\ HasMonitors /\ host.platform = "win32"
    /\ Len(GraphicsYield) = 0
    /\ outcome.value.monitors # <<FallbackRecord>>

\* C16: a record whose source provides no name is named `Display <id>` by
\* the cross-platform strategy and `Monitor <id>` by the platform
\* strategies, <id> being the id of that same record.
C16_NamePlaceholder ==
    HasMonitors
    => LET ms == outcome.value.monitors
       IN  /\ Len(GraphicsYield) > 0
              => \A k \in 1..Len(ms) :
                    GraphicsYield[k].model = ""
                    => ms[k].name = "Display " \o IdText(ms[k].id)
           /\ WindowsGave
              => \A k \in 1..Len(ms) : ms[k].name = "Monitor " \o IdText(ms[k].id)
           /\ (MacRan /\ ms # <<FallbackRecord>>)
              => LET entries == MacEntries(host.exec.value.json.SPDisplaysDataType)
                 IN  \A k \in 1..Len(ms) :
                        entries[k]._name = ""
                        => ms[k].name = "Monitor " \o IdText(ms[k].id)

-----------------------------------------------------------------------------
(* C18 *)

\* a platform strategy ran for the request
PlatformRan ==
    /\ MonitorDone
    /\ host.graphics.kind = "ok" /\ Len(GraphicsYield) = 0
    /\ host.platform \in {"win32", "darwin", "linux"}

HasNull(seq) == \E k \in 1..Len(seq) : IsNull(seq[k])

\* the parsed output holds an element the strategy cannot process
UnprocessableElement ==
    /\ host.exec.kind = "ok" /\ "json" \in DOMAIN host.exec.value
    /\ \/ /\ host.platform = "win32"
          /\ \/ "obj" \in DOMAIN host.exec.value.json
                /\ IsNull(host.exec.value.json.obj)
             \/ "arr" \in DOMAIN host.exec.value.json
                /\ HasNull(host.exec.value.json.arr)
       \/ /\ host.platform = "darwin"
          /\ "SPDisplaysDataType" \in DOMAIN host.exec.value.json
          /\ LET adapters == host.exec.value.json.SPDisplaysDataType
             IN  \/ HasNull(adapters)
                 \/ \E a \in 1..Len(adapters) :
                       /\ ~IsNull(adapters[a])
                       /\ "spdisplays_ndrvs" \in DOMAIN adapters[a]
                       /\ HasNull(adapters[a].spdisplays_ndrvs)

\* non-zero exit or timeout, empty or unparsable output, or an element that
\* cannot be processed
StrategyFailed ==
    \/ host.exec.kind \in {"raise", "overrun"}
    \/ host.exec.kind = "ok" /\ "blank" \in DOMAIN host.exec.value
    \/ host.exec.kind = "ok" /\ "garbage" \in DOMAIN host.exec.value
    \/ UnprocessableElement

\* C18: a platform strategy that fails at any point of its run contributes
\* no record, not even those built before the failure, and the result is
\* the fallback record.
C18_FailureYieldsZeroRecords ==
    (PlatformRan /\ StrategyFailed)
    => outcome.value.monitors = <<FallbackRecord>>

-----------------------------------------------------------------------------
(* C19 *)

GraphicsQuery == "si.graphics"

\* the command of the platform strategy of the running operating system
CommandOfRunningOS ==
    CASE host.platform = "win32" -> "powershell Get-CimInstance WmiMonitorBasicDisplayParams"
      [] host.platform = "darwin" -> "system_profiler SPDisplaysDataType -json"
      [] host.platform = "linux" -> "xrandr --query"
      [] OTHER -> "none"

\* the request is past its dispatch
MonitorUnderWay ==
    request # None /\ request.name = MonitorTool /\ pc # "dispatch"

\* C19: in one get_monitor_info request the graphics query is issued
\* exactly once and first; a platform command is issued at most once, is
\* the command of the running operating system, and is issued only after
\* the graphics query resolved to zero records; no call is issued again
\* after a failure.
C19_CallOrder ==
    MonitorUnderWay
    => /\ Len(calls) \in {1, 2}
       /\ calls[1] = GraphicsQuery
       /\ Len(calls) = 2
          => /\ calls[2] = CommandOfRunningOS
             /\ pc # "await_graphics"
             /\ host.graphics.kind = "ok" /\ Len(GraphicsYield) = 0
       /\ (pc = "done" /\ host.graphics.kind = "raise") => calls = <<GraphicsQuery>>
       /\ (pc = "done" /\ Len(GraphicsYield) > 0) => calls = <<GraphicsQuery>>

\* the platform command failed after the graphics query had found nothing;
\* each was issued once
C19_Witness ==
    /\ MonitorDone
    /\ host.platform = "linux"
    /\ host.exec = ExecFail
    /\ calls = <<GraphicsQuery, "xrandr --query">>

-----------------------------------------------------------------------------
(* C20 *)

\* getMonitorInfo returned the object of its catch block
MonitorFailed == MonitorDone /\ host.graphics.kind = "raise"

\* getMonitorInfo returns a value for every answer of the provider and of
\* the platform command: the result, or the error object without monitors
ReturnsResultOrError ==
    MonitorDone
    => /\ outcome.kind = "ok" /\ ~Flagged
       /\ \/ DOMAIN outcome.value = {"total_monitors", "monitors", "system"}
          \/ DOMAIN outcome.value = {"error", "system"}
       /\ MonitorFailed <=> "error" \in DOMAIN outcome.value
       /\ outcome.value.system = host.platform

\* C20 as stated: getMonitorInfo never raises to the dispatcher; it returns
\* {total_monitors, monitors, system} or, on an uncaught internal exception,
\* {error, system} without monitors, error being the exception's message.
C20_ErrorIsExceptionMessage ==
    /\ ReturnsResultOrError
    /\ MonitorFailed => outcome.value.error = host.graphics.message

\* C20, amended: as above, error being the exception's message after the
\* prefix `Failed to get monitor info: `.
C20_ErrorIsPrefixedMessage ==
    /\ ReturnsResultOrError
    /\ MonitorFailed
       => outcome.value.error = "Failed to get monitor info: " \o host.graphics.message

\* si.graphics() rejected and the request was answered without the error flag
C20_Witness ==
    /\ MonitorFailed
    /\ host.platform = "win32"
    /\ outcome.value.error = "Failed to get monitor info: graphics unavailable"
    /\ outcome.value.system = "win32"
    /\ "monitors" \notin DOMAIN outcome.value
    /\ ~Flagged

-----------------------------------------------------------------------------
(* C17 *)

\* the platform command of the request runs past its timeout
Overrunning ==
    /\ request # None /\ request.name = MonitorTool
    /\ host.exec = ExecOverrun

\* C17: when the platform command exceeds its timeout, the request does not
\* wait for ever: it is eventually answered; the strategy alone is
\* cancelled and gives no record, so the answer is the successful result
\* with the one fallback record, after both external calls were issued.
C17_TimeoutFallsBack ==
    /\ [](Overrunning /\ pc = "done" /\ host.graphics.kind = "ok" /\ Len(GraphicsYield) = 0
          => /\ outcome.kind = "ok" /\ ~Flagged
             /\ outcome.value.monitors = <<FallbackRecord>>
             /\ outcome.value.total_monitors = 1
             /\ Len(calls) = 2)
    /\ (Overrunning /\ pc = "await_exec") ~> (Overrunning /\ pc = "done" /\ response # None)

\* the PowerShell command was killed by its timeout and the request answered
C17_Witness ==
    /\ Overrunning /\ pc = "done"
    /\ host.platform = "win32"
    /\ calls = <<"si.graphics", "powershell Get-CimInstance WmiMonitorBasicDisplayParams">>
    /\ outcome.value.monitors = <<FallbackRecord>>
    /\ response = SuccessResponse(outcome.value)

-----------------------------------------------------------------------------
(* C21 *)

\* what the handler of request req returns or raises when it runs alone
\* against the answers hst
SoloOutcome(req, hst) ==
    CASE req.name = MonitorTool ->
           IF hst.graphics.kind = "raise"
           THEN Ok(MonitorError(hst.graphics.message, hst.platform))
           ELSE LET ms == MonitorsFromGraphics(hst.graphics.value)
                IN  IF NeedsPlatform(ms) /\ HasPlatformStrategy(hst.platform)
                    THEN Ok(MonitorResult(
                              FinalFallback(PlatformMonitors(hst.platform,
                                  ExecSettled(hst.exec, Timeout(hst.platform)))),
                              hst.platform))
                    ELSE Ok(MonitorResult(FinalFallback(ms), hst.platform))
      [] req.name = ProcessTool ->
           IF hst.processes.kind = "raise" THEN hst.processes
           ELSE Ok(ProcessesResult(hst.processes.value, LimitOf(req.arguments),
                                   SortByOf(req.arguments), hst))
      [] req.name \in QueryTools ->
           IF hst.failed \cap Unguarded(req.name) = {}
           THEN Ok(QueryResult(req.name, hst.failed))
           ELSE Raise((CHOOSE q \in hst.failed \cap Unguarded(req.name) : TRUE)
                      \o " failed")
      [] OTHER -> Raise("Unknown tool: " \o req.name)

\* the records of a returned get_monitor_info result
RecordsOf(o) ==
    IF o # None /\ o.kind = "ok" /\ "monitors" \in DOMAIN o.value
    THEN o.value.monitors ELSE <<>>

====
